---------------------------- MODULE Spec2Model ----------------------------
(***************************************************************************)
(* A model of singles_scrapper.py: the record extractor                    *)
(* (get_dataframe_from_soup), the page walker (scrape_multiple_pages),     *)
(* the merger (merge_albums_singles) and the playlist reconciler           *)
(* (remove_already_added_tracks, add_songs_to_playlist).                   *)
(*                                                                         *)
(* A DataFrame is a sequence of rows; a row's index label is its field     *)
(* "name" (pandas' row.name).  Weighted scores are kept in hundredths      *)
(* (7.77 is 777), ratings and vote counts are integers.                    *)
(***************************************************************************)
EXTENDS Integers, Sequences, FiniteSets, TLC

VARIABLES
    \* ---- playlist reconciler (__main__ lines 466-469) ----
    pc,                  \* position in the reconciliation run
    playlist,            \* the remote playlist: the URIs of its tracks
    sorted_df,           \* the ranked collection handed to the reconciler
    stageA_tracks,       \* existing_tracks fetched by remove_already_added_tracks
    new_songs,           \* the result of remove_already_added_tracks
    stageB_tracks,       \* existing_tracks fetched by add_songs_to_playlist
    existing_track_uris, \* the running set of identifiers of add_songs_to_playlist
    singles_df_copy,     \* the copy rows are dropped from
    row_i,               \* number of rows of new_songs already iterated
    searched,            \* [label, items] of each sp.search call, in call order
    added,               \* <<label, uri>> of each sp.playlist_add_items call, in order
    new_songs_spotify,   \* the collection add_songs_to_playlist returns
    \* ---- record extractor (get_dataframe_from_soup) ----
    e_pc,                \* "blocks" while the block loop runs, then "done"
    params,              \* the arguments of the call
    blocks_seen,         \* the rating entries and date flag of each block iterated
    lists,               \* the rows appended so far (dates, titles, ... in step)
    row_block,           \* for each row of lists, the number of the block it came from
    detail_fetches,      \* the numbers of the blocks whose detail page was fetched
    df,                  \* the DataFrame returned
    \* ---- album expansion (get_dataframe_from_soup, lines 110-160) ----
    a_pc,                \* "block" before the iteration for the album, then "done"
    a_params,            \* the arguments of the call
    a_block,             \* the album block, with the rows of its detail page
    a_rows,              \* the rows the iteration appended
    \* ---- page walker (scrape_multiple_pages) ----
    w_pc,                \* "loop", "done" (returned) or "raised"
    w_args,              \* the arguments of the call; start_page, end_page
    page_num,            \* the loop variable
    response,            \* the local variable response; unbound before a fetch returns
    final_df,            \* the accumulated DataFrame
    fetch_log,           \* what the fetch of each page visited did, in order
    \* ---- merger (merge_albums_singles) ----
    m_pc,                \* "merge", then "done" (returned) or "raised"
    albums_df,           \* argument
    singles_df,          \* argument
    merged_df,           \* the DataFrame returned
    \* ---- scoring (weighted_average_rating) ----
    s_pc,                \* "score" before the two calls, then "done"
    s_args,              \* the two ratings and the arguments the calls share
    s_scores             \* the values the two calls returned

recon_vars == <<pc, playlist, sorted_df, stageA_tracks, new_songs, stageB_tracks,
                existing_track_uris, singles_df_copy, row_i, searched, added,
                new_songs_spotify>>

extract_vars == <<e_pc, params, blocks_seen, lists, row_block, detail_fetches, df>>

album_vars == <<a_pc, a_params, a_block, a_rows>>

walk_vars == <<w_pc, w_args, page_num, response, final_df, fetch_log>>

merge_vars == <<m_pc, albums_df, singles_df, merged_df>>

score_vars == <<s_pc, s_args, s_scores>>

vars == <<recon_vars, extract_vars, album_vars, walk_vars, merge_vars, score_vars>>

-----------------------------------------------------------------------------
(* Each specification below runs one component; the variables of the       *)
(* others rest at these values.                                            *)
ReconIdle ==
    /\ pc = "idle"
    /\ playlist = {}
    /\ sorted_df = << >>
    /\ stageA_tracks = {}
    /\ new_songs = << >>
    /\ stageB_tracks = {}
    /\ existing_track_uris = {}
    /\ singles_df_copy = << >>
    /\ row_i = 0
    /\ searched = << >>
    /\ added = << >>
    /\ new_songs_spotify = << >>

ExtractIdle ==
    /\ e_pc = "idle"
    /\ params = << >>
    /\ blocks_seen = << >>
    /\ lists = << >>
    /\ row_block = << >>
    /\ detail_fetches = << >>
    /\ df = << >>

AlbumIdle ==
    /\ a_pc = "idle"
    /\ a_params = << >>
    /\ a_block = << >>
    /\ a_rows = << >>

WalkIdle ==
    /\ w_pc = "idle"
    /\ w_args = << >>
    /\ page_num = 0
    /\ response = << >>
    /\ final_df = << >>
    /\ fetch_log = << >>

MergeIdle ==
    /\ m_pc = "idle"
    /\ albums_df = << >>
    /\ singles_df = << >>
    /\ merged_df = << >>

ScoreIdle ==
    /\ s_pc = "idle"
    /\ s_args = << >>
    /\ s_scores = << >>

-----------------------------------------------------------------------------
(* Bounds of the model.                                                    *)
MaxReleases == 3
MaxPlaylist == 2
MaxBlocks == 2
MaxDetailRows == 2
MaxTracks == 3
MaxPage == 3
MaxPageBlocks == 1
MaxFrame == 2
MaxRating == 100
MaxVotes == 12

(* Generic helpers.                                                        *)
Range(s) == {s[k] : k \in 1..Len(s)}

SeqsUpTo(S, n) == UNION {[1..k -> S] : k \in 0..n}

Reverse(s) == [k \in 1..Len(s) |-> s[Len(s) + 1 - k]]

-----------------------------------------------------------------------------
(* Scoring.                                                                *)

(* The fixed scoring policy of get_dataframe_from_soup.                    *)
GlobalAvg == 74
SmoothingFactor == 15

(* The smoothing factors the program has: the default of the parameter    *)
(* and the one get_dataframe_from_soup passes.                             *)
SmoothingFactors == {10, SmoothingFactor}

(* round(x, 2) rounds the binary double x = t1 / 10, not the exact         *)
(* quotient.  When 10 * N / D lies exactly halfway between two hundredths  *)
(* the double lies on one side of the half or the other.  These are the    *)
(* <<N, D>> whose double rounds down, for global_avg 74, smoothing_factor  *)
(* 10 or 15, avg_rating up to 102 and num_votes up to 20, as Python        *)
(* computes them; every other halfway case of that range rounds up.        *)
HalfwayRoundsDown ==
    {
      <<740, 16>>, <<788, 16>>, <<836, 16>>, <<908, 16>>, <<956, 16>>,
      <<980, 16>>, <<1028, 16>>, <<1076, 16>>, <<1116, 16>>, <<1140, 16>>,
      <<1148, 16>>, <<1156, 16>>, <<1188, 16>>, <<1196, 16>>, <<1220, 16>>,
      <<1268, 16>>, <<1292, 16>>, <<1316, 16>>, <<1125, 20>>, <<1135, 20>>,
      <<1145, 20>>, <<1185, 20>>, <<1195, 20>>, <<1225, 20>>, <<1235, 20>>,
      <<1245, 20>>, <<1285, 20>>, <<1295, 20>>, <<1325, 20>>, <<1335, 20>>,
      <<1345, 20>>, <<1385, 20>>, <<1395, 20>>, <<1425, 20>>, <<1435, 20>>,
      <<1445, 20>>, <<1485, 20>>, <<1495, 20>>, <<1525, 20>>, <<1535, 20>>,
      <<1545, 20>>, <<1585, 20>>, <<1595, 20>>, <<1615, 20>>, <<1062, 24>>,
      <<1110, 24>>, <<1182, 24>>, <<1230, 24>>, <<1254, 24>>, <<1314, 24>>,
      <<1362, 24>>, <<1434, 24>>, <<1470, 24>>, <<1482, 24>>, <<1542, 24>>,
      <<1614, 24>>, <<1722, 24>>, <<1734, 24>>, <<1794, 24>>, <<1830, 24>>,
      <<1902, 24>>, <<1938, 24>>, <<1974, 24>>, <<2070, 24>>, <<2154, 24>>,
      <<1253, 28>>, <<1435, 28>>, <<1799, 28>>, <<2163, 28>>, <<1416, 32>>,
      <<1960, 32>>, <<2232, 32>>
    }

(* TRUE when 10 * N / D is exactly halfway between two integers.           *)
IsHalfway(N, D) == (20 * N) % (2 * D) = D

(* A variant whose denominator takes the rating for the vote count.        *)
weighted_average_rating_mut(avg_rating, num_votes, global_avg, smoothing_factor) ==
    LET N == (avg_rating * num_votes) + (global_avg * smoothing_factor)
        D == avg_rating + smoothing_factor
    IN  ((20 * N) + D) \div (2 * D)

(* weighted_average_rating, in hundredths: round(t1 / 10, 2) * 100 with    *)
(* t1 = (avg_rating * num_votes + global_avg * smoothing_factor) /         *)
(* (num_votes + smoothing_factor), i.e. 10 * N / D rounded to the nearest  *)
(* integer, a halfway case going the way its double goes.                  *)
weighted_average_rating(avg_rating, num_votes, global_avg, smoothing_factor) ==
    LET N == (avg_rating * num_votes) + (global_avg * smoothing_factor)
        D == num_votes + smoothing_factor
    IN  IF IsHalfway(N, D) /\ <<N, D>> \in HalfwayRoundsDown
        THEN (10 * N) \div D
        ELSE ((20 * N) + D) \div (2 * D)

(* ---- Specification SpecScore: two calls that differ in the rating ---- *)

(* The arguments: two ratings on the 0..100 scale, avg_rating1 no larger   *)
(* than avg_rating2, and a vote count, global average and smoothing factor *)
(* both calls share.                                                       *)
ScoreArgs ==
    {[avg_rating1 |-> r1, avg_rating2 |-> r2, num_votes |-> v,
      global_avg |-> GlobalAvg, smoothing_factor |-> s] :
        r1 \in 0..MaxRating, r2 \in 0..MaxRating, v \in 0..MaxVotes,
        s \in SmoothingFactors}

ScoreInit ==
    /\ s_pc = "score"
    /\ s_args \in {a \in ScoreArgs : a.avg_rating1 <= a.avg_rating2}
    /\ s_scores = << >>

score_pair ==
    /\ s_pc = "score"
    /\ s_scores' = <<weighted_average_rating(s_args.avg_rating1, s_args.num_votes,
                                             s_args.global_avg,
                                             s_args.smoothing_factor),
                     weighted_average_rating(s_args.avg_rating2, s_args.num_votes,
                                             s_args.global_avg,
                                             s_args.smoothing_factor)>>
    /\ s_pc' = "done"
    /\ UNCHANGED s_args

ScoreNext ==
    score_pair /\ UNCHANGED <<recon_vars, extract_vars, album_vars, walk_vars, merge_vars>>

InitScore == ReconIdle /\ ExtractIdle /\ AlbumIdle /\ WalkIdle /\ MergeIdle /\ ScoreInit

SpecScore == InitScore /\ [][ScoreNext]_vars

-----------------------------------------------------------------------------
(* The record extractor, get_dataframe_from_soup.                          *)

SINGLES_URL == "https://www.albumoftheyear.org/releases/singles/"
ALBUMS_URL == "https://www.albumoftheyear.org/releases/"

(* The mean-rating cuts of the album expansion.                            *)
MeanCutOne == 82
MeanCutTwo == 84

(* The arguments of the two calls __main__ makes through                   *)
(* scrape_multiple_pages (argparse defaults, and line 229).                *)
SinglesArgs ==
    [base_url |-> SINGLES_URL, min_nb_ratings |-> 7, min_rating |-> 76,
     min_weighted |-> 777, min_rating_tracks |-> 80, min_votes_tracks |-> 7,
     top_songs_keep |-> 3]

AlbumsArgs ==
    [base_url |-> ALBUMS_URL, min_nb_ratings |-> 60, min_rating |-> 74,
     min_weighted |-> 760, min_rating_tracks |-> 80, min_votes_tracks |-> 7,
     top_songs_keep |-> 3]

(* The user rating entry of a block: the second entry when a critic and a  *)
(* user entry are present, the only entry otherwise (lines 95-101).        *)
UserEntry(block) ==
    IF Len(block.ratings) = 2 THEN block.ratings[2] ELSE block.ratings[1]

(* Mutant: the vote gate and the rating gate are joined with "or".         *)
PassesGates_mut(entry, p) ==
    entry.count >= p.min_nb_ratings \/ entry.score >= p.min_rating

(* Line 104.                                                               *)
PassesGates(entry, p) ==
    entry.count >= p.min_nb_ratings /\ entry.score >= p.min_rating

(* Line 135.                                                               *)
TrackQualifies(track, p) ==
    track.rating >= p.min_rating_tracks /\ track.votes >= p.min_votes_tracks

(* track_ratings[name] = value on an insertion-ordered dict: a new name is *)
(* appended, a name already present keeps its place and takes the value.   *)
DictSet(d, name, value) ==
    IF \E k \in 1..Len(d) : d[k].name = name
      THEN [k \in 1..Len(d) |->
                IF d[k].name = name
                  THEN [name |-> name, rating |-> value.rating, votes |-> value.votes]
                  ELSE d[k]]
      ELSE Append(d, [name |-> name, rating |-> value.rating, votes |-> value.votes])

(* Lines 127-136: the dict of qualifying tracks, rows without a rating     *)
(* span skipped.                                                           *)
RECURSIVE TrackRatings(_, _)
TrackRatings(tracks, p) ==
    IF tracks = << >> THEN << >>
    ELSE LET prev == TrackRatings(SubSeq(tracks, 1, Len(tracks) - 1), p)
             track == tracks[Len(tracks)]
         IN  IF ~ track.has_span THEN prev
             ELSE IF TrackQualifies(track, p)
                    THEN DictSet(prev, track.name, track)
                    ELSE prev

RECURSIVE SumRatings(_)
SumRatings(d) ==
    IF d = << >> THEN 0
    ELSE d[Len(d)].rating + SumRatings(SubSeq(d, 1, Len(d) - 1))

(* sorted(..., key=rating, reverse=True): stable, so equal ratings keep    *)
(* their dict order.  x is placed behind every element rated >= x.         *)
InsertByRatingDesc(sorted, x) ==
    LET ahead == Cardinality({k \in 1..Len(sorted) : sorted[k].rating >= x.rating})
    IN  SubSeq(sorted, 1, ahead) \o <<x>> \o SubSeq(sorted, ahead + 1, Len(sorted))

RECURSIVE SortedByRatingDesc(_)
SortedByRatingDesc(d) ==
    IF d = << >> THEN << >>
    ELSE InsertByRatingDesc(SortedByRatingDesc(SubSeq(d, 1, Len(d) - 1)), d[Len(d)])

(* s[:k]                                                                   *)
Take(s, k) == SubSeq(s, 1, IF k < Len(s) THEN k ELSE Len(s))

(* Lines 140-148: how many of the best tracks are kept.  np.mean(r) < c    *)
(* is compared as sum(r) < c * len(r).                                     *)
TopSongs(track_ratings, top_songs_keep) ==
    LET n == Len(track_ratings)
        total == SumRatings(track_ratings)
        sorted == SortedByRatingDesc(track_ratings)
    IN  IF total < MeanCutOne * n THEN Take(sorted, 1)
        ELSE IF total < MeanCutTwo * n THEN Take(sorted, 2)
        ELSE Take(sorted, top_songs_keep)

(* Mutant: the track keeps the weighted score of its album (line 107).     *)
TrackWeighted_mut(entry, rating) ==
    weighted_average_rating(entry.score, entry.count, GlobalAvg, SmoothingFactor)

(* Line 152: the weighted score of a kept track.                           *)
TrackWeighted(entry, rating) ==
    weighted_average_rating(rating.rating, rating.votes, GlobalAvg, SmoothingFactor)

(* Lines 151-160: the row appended for a kept track.                       *)
TrackRow(block, rating) ==
    [Date |-> block.date, Title |-> rating.name, Artist |-> block.artist,
     Album |-> block.albumTitle, Rating |-> rating.rating,
     nb_votes |-> rating.votes,
     weighted |-> TrackWeighted(UserEntry(block), rating)]

(* Lines 107 and 165-171: the row appended for a single.                   *)
SingleRow(block) ==
    LET entry == UserEntry(block)
    IN  [Date |-> block.date, Title |-> block.albumTitle, Artist |-> block.artist,
         Album |-> "Single", Rating |-> entry.score, nb_votes |-> entry.count,
         weighted |-> weighted_average_rating(entry.score, entry.count,
                                              GlobalAvg, SmoothingFactor)]

(* Lines 121-160: the rows of an album whose detail page holds the rows    *)
(* block.tracks.                                                           *)
AlbumRows(block, p) ==
    IF Len(block.tracks) = 0 THEN << >>
    ELSE LET track_ratings == TrackRatings(block.tracks, p)
         IN  IF Len(track_ratings) = 0 THEN << >>
             ELSE LET top_songs == TopSongs(track_ratings, p.top_songs_keep)
                  IN  [k \in 1..Len(top_songs) |-> TrackRow(block, top_songs[k])]

(* Lines 83-117: whether the iteration for a block reaches requests.get of *)
(* the album's detail page.                                                *)
BlockFetches(block, p) ==
    /\ Len(block.ratings) # 0
    /\ block.has_date
    /\ PassesGates(UserEntry(block), p)
    /\ p.base_url = ALBUMS_URL

(* Mutant: a block with no date entry is not skipped.                      *)
BlockRows_mut(block, p) ==
    IF Len(block.ratings) = 0 THEN << >>
    ELSE IF ~ PassesGates(UserEntry(block), p) THEN << >>
    ELSE IF p.base_url = ALBUMS_URL THEN AlbumRows(block, p)
    ELSE <<SingleRow(block)>>

(* Lines 80-171: the rows one iteration of the block loop appends.         *)
BlockRows(block, p) ==
    IF Len(block.ratings) = 0 THEN << >>
    ELSE IF ~ block.has_date THEN << >>
    ELSE IF ~ PassesGates(UserEntry(block), p) THEN << >>
    ELSE IF p.base_url = ALBUMS_URL THEN AlbumRows(block, p)
    ELSE <<SingleRow(block)>>

(* Lines 174-185: pd.DataFrame(...) labels the rows 0, 1, ... in order.    *)
DataFrame(rows) ==
    [k \in 1..Len(rows) |->
        [name |-> k - 1, Date |-> rows[k].Date, Title |-> rows[k].Title,
         Artist |-> rows[k].Artist, Album |-> rows[k].Album,
         Rating |-> rows[k].Rating, nb_votes |-> rows[k].nb_votes,
         weighted |-> rows[k].weighted]]

(* Line 188: df[df['weighted'] >= min_weighted]; labels are kept.          *)
WeightedGate(frame, min_weighted) ==
    SelectSeq(frame, LAMBDA r : r.weighted >= min_weighted)

(* All rows the block loop appends for a page, lines 80-171.               *)
RECURSIVE SoupRows(_, _)
SoupRows(album_blocks, p) ==
    IF album_blocks = << >> THEN << >>
    ELSE SoupRows(SubSeq(album_blocks, 1, Len(album_blocks) - 1), p)
            \o BlockRows(album_blocks[Len(album_blocks)], p)

(* get_dataframe_from_soup as a whole, for a page whose album detail pages *)
(* answer with block.tracks.                                               *)
get_dataframe_from_soup(album_blocks, p) ==
    WeightedGate(DataFrame(SoupRows(album_blocks, p)), p.min_weighted)

-----------------------------------------------------------------------------
(* The extractor run block by block over the listing blocks of one page.   *)

CriticEntry == [score |-> 95, count |-> 200]

UserEntries ==
    {[score |-> 90, count |-> 100], [score |-> 76, count |-> 7],
     [score |-> 80, count |-> 24], [score |-> 70, count |-> 100],
     [score |-> 90, count |-> 5]}

(* Zero, one (user) or two (critic, user) rating entries.                  *)
RatingLists ==
    {<< >>} \cup {<<u>> : u \in UserEntries} \cup {<<CriticEntry, u>> : u \in UserEntries}

(* Rows of an album's detail page, each with a rating span (rows without   *)
(* one are drawn in AlbumTracks below).                                    *)
DetailRows ==
    {[has_span |-> TRUE, name |-> "a", rating |-> 80, votes |-> 7],
     [has_span |-> TRUE, name |-> "b", rating |-> 88, votes |-> 20],
     [has_span |-> TRUE, name |-> "c", rating |-> 79, votes |-> 20],
     [has_span |-> TRUE, name |-> "c", rating |-> 85, votes |-> 4]}

Blocks ==
    [ratings : RatingLists, has_date : BOOLEAN, date : {"Jan 5"}, artist : {"a1"},
     albumTitle : {"t1"}, tracks : SeqsUpTo(DetailRows, MaxDetailRows)]

(* The same call with every listing threshold at zero.                     *)
NoThresholds(p) ==
    [p EXCEPT !.min_nb_ratings = 0, !.min_rating = 0, !.min_weighted = 0]

ExtractInit ==
    /\ e_pc = "blocks"
    /\ params \in {SinglesArgs, AlbumsArgs, NoThresholds(SinglesArgs),
                  NoThresholds(AlbumsArgs)}
    /\ blocks_seen = << >>
    /\ lists = << >>
    /\ row_block = << >>
    /\ detail_fetches = << >>
    /\ df = << >>

(* One iteration of the block loop, lines 80-171, for the next block of    *)
(* the page.                                                               *)
extract_block ==
    /\ e_pc = "blocks"
    /\ Len(blocks_seen) < MaxBlocks
    /\ \E album_block \in Blocks :
         LET rows == BlockRows(album_block, params)
             number == Len(blocks_seen) + 1
         IN  /\ blocks_seen' = Append(blocks_seen,
                    [ratings |-> album_block.ratings, has_date |-> album_block.has_date])
             /\ lists' = lists \o rows
             /\ row_block' = row_block \o [k \in 1..Len(rows) |-> number]
             /\ detail_fetches' =
                    IF BlockFetches(album_block, params)
                      THEN Append(detail_fetches, number)
                      ELSE detail_fetches
    /\ UNCHANGED <<e_pc, params, df>>

(* Lines 173-190, once the blocks of the page are exhausted.               *)
extract_return ==
    /\ e_pc = "blocks"
    /\ df' = WeightedGate(DataFrame(lists), params.min_weighted)
    /\ e_pc' = "done"
    /\ UNCHANGED <<params, blocks_seen, lists, row_block, detail_fetches>>

ExtractNext ==
    \/ extract_block /\ UNCHANGED <<recon_vars, album_vars, walk_vars, merge_vars, score_vars>>
    \/ extract_return /\ UNCHANGED <<recon_vars, album_vars, walk_vars, merge_vars, score_vars>>

InitExtract == ReconIdle /\ AlbumIdle /\ WalkIdle /\ MergeIdle /\ ScoreIdle /\ ExtractInit

SpecExtract == InitExtract /\ [][ExtractNext]_vars

-----------------------------------------------------------------------------
(* The iteration of the block loop for one album that passes the album     *)
(* gates, over the rows its detail page may hold.                          *)

AlbumTracks ==
    {[has_span |-> TRUE, name |-> "a", rating |-> 80, votes |-> 20],
     [has_span |-> TRUE, name |-> "b", rating |-> 84, votes |-> 20],
     [has_span |-> TRUE, name |-> "c", rating |-> 88, votes |-> 20],
     [has_span |-> TRUE, name |-> "c", rating |-> 84, votes |-> 20],
     [has_span |-> TRUE, name |-> "b", rating |-> 79, votes |-> 20],
     [has_span |-> FALSE, name |-> "", rating |-> 0, votes |-> 0]}

AlbumInit ==
    /\ a_pc = "block"
    /\ a_params \in {[AlbumsArgs EXCEPT !.top_songs_keep = k] : k \in 1..3}
    /\ a_block \in
          [ratings : {<<[score |-> 90, count |-> 100]>>}, has_date : {TRUE},
           date : {"Jan 5"}, artist : {"a1"}, albumTitle : {"t1"},
           tracks : SeqsUpTo(AlbumTracks, MaxTracks)]
    /\ a_rows = << >>

(* Lines 80-160 for the album block.                                       *)
expand_album ==
    /\ a_pc = "block"
    /\ a_rows' = BlockRows(a_block, a_params)
    /\ a_pc' = "done"
    /\ UNCHANGED <<a_params, a_block>>

AlbumNext ==
    expand_album /\ UNCHANGED <<recon_vars, extract_vars, walk_vars, merge_vars, score_vars>>

InitAlbum == ReconIdle /\ ExtractIdle /\ WalkIdle /\ MergeIdle /\ ScoreIdle /\ AlbumInit

SpecAlbum == InitAlbum /\ [][AlbumNext]_vars

-----------------------------------------------------------------------------
(* The page walker, scrape_multiple_pages.                                 *)

(* pd.concat([a, b], ignore_index=True): the rows of a, then of b,         *)
(* relabelled 0, 1, ...                                                    *)
ConcatIgnoreIndex(a, b) ==
    LET all == a \o b
    IN  [k \in 1..Len(all) |-> [all[k] EXCEPT !.name = k - 1]]

(* The listing blocks a fetched page may hold.                             *)
WalkBlocks ==
    {[ratings |-> <<[score |-> 90, count |-> 100]>>, has_date |-> TRUE,
      date |-> "Jan 5", artist |-> "a1", albumTitle |-> "t1",
      tracks |-> <<[has_span |-> TRUE, name |-> "b", rating |-> 88, votes |-> 20]>>],
     [ratings |-> <<CriticEntry, [score |-> 90, count |-> 100]>>, has_date |-> TRUE,
      date |-> "Jan 5", artist |-> "a1", albumTitle |-> "t2",
      tracks |-> <<[has_span |-> TRUE, name |-> "c", rating |-> 88, votes |-> 20]>>],
     [ratings |-> <<[score |-> 70, count |-> 100]>>, has_date |-> TRUE,
      date |-> "Jan 5", artist |-> "a1", albumTitle |-> "t1",
      tracks |-> << >>]}

(* What requests.get of a listing page may do: raise (timeout, DNS,        *)
(* connection reset), or return a response.                                *)
FetchOutcomes ==
    {[raises |-> TRUE, status_code |-> 0, content |-> << >>],
     [raises |-> FALSE, status_code |-> 404, content |-> << >>]}
    \cup [raises : {FALSE}, status_code : {200},
          content : SeqsUpTo(WalkBlocks, MaxPageBlocks)]

Unbound == [bound |-> FALSE]

WalkInit ==
    /\ w_pc = "loop"
    /\ \E call \in {SinglesArgs, AlbumsArgs}, first \in 1..2, last \in 1..MaxPage :
          /\ w_args = [call |-> call, start_page |-> first, end_page |-> last]
          /\ page_num = first
    /\ response = Unbound
    /\ final_df = << >>
    /\ fetch_log = << >>

(* Lines 219-222: the value of response after the try statement.           *)
ResponseAfterTry(old, outcome) ==
    IF outcome.raises THEN old
    ELSE [bound |-> TRUE, status_code |-> outcome.status_code,
          content |-> outcome.content]

(* One iteration of the page loop, lines 214-234.  Reading response while  *)
(* it is unbound raises UnboundLocalError out of scrape_multiple_pages.    *)
scrape_page ==
    /\ w_pc = "loop"
    /\ page_num <= w_args.end_page
    /\ \E outcome \in FetchOutcomes :
         LET after == ResponseAfterTry(response, outcome)
         IN  /\ response' = after
             /\ fetch_log' = Append(fetch_log, outcome)
             /\ IF ~ after.bound
                  THEN /\ w_pc' = "raised"
                       /\ UNCHANGED <<final_df, page_num>>
                  ELSE /\ final_df' =
                            IF after.status_code = 200
                              THEN ConcatIgnoreIndex(final_df,
                                       get_dataframe_from_soup(after.content, w_args.call))
                              ELSE final_df
                       /\ page_num' = page_num + 1
                       /\ UNCHANGED w_pc
    /\ UNCHANGED w_args

(* Lines 236-237.                                                          *)
scrape_return ==
    /\ w_pc = "loop"
    /\ page_num > w_args.end_page
    /\ w_pc' = "done"
    /\ UNCHANGED <<w_args, page_num, response, final_df, fetch_log>>

WalkNext ==
    \/ scrape_page /\ UNCHANGED <<recon_vars, extract_vars, album_vars, merge_vars, score_vars>>
    \/ scrape_return /\ UNCHANGED <<recon_vars, extract_vars, album_vars, merge_vars, score_vars>>

InitWalk == ReconIdle /\ ExtractIdle /\ AlbumIdle /\ MergeIdle /\ ScoreIdle /\ WalkInit

SpecWalk == InitWalk /\ [][WalkNext]_vars

-----------------------------------------------------------------------------
(* The merger, merge_albums_singles.                                       *)

(* The year appended to every date before parsing (line 386).              *)
AssumedYear == 2024

(* strptime's %b.                                                          *)
MonthNumber(mon) ==
    CASE mon = "Jan" -> 1
      [] mon = "Feb" -> 2
      [] mon = "Mar" -> 3

DaysInMonth(mon) ==
    CASE mon = "Jan" -> 31
      [] mon = "Feb" -> 29
      [] mon = "Mar" -> 31

(* Whether pd.to_datetime(date + ', 2024', format='%b %d, %Y') parses the  *)
(* date; it raises ValueError otherwise.                                   *)
DateParses(date) == date.day >= 1 /\ date.day <= DaysInMonth(date.mon)

(* The parsed timestamp, as a number that orders dates as the calendar     *)
(* does.                                                                   *)
time_stamp_date(date) ==
    (AssumedYear * 10000) + (MonthNumber(date.mon) * 100) + date.day

(* Whether row x sorts strictly ahead of row e under                       *)
(* by=['time_stamp_date', 'weighted'], ascending=[False, False].           *)
SortsAhead(x, e) ==
    \/ time_stamp_date(x.Date) > time_stamp_date(e.Date)
    \/ /\ time_stamp_date(x.Date) = time_stamp_date(e.Date)
       /\ x.weighted > e.weighted

(* Mutant: rows with equal keys end up in reverse order (a descending      *)
(* sort made by reversing an ascending one).                               *)
InsertSorted_mut(sorted, x) ==
    LET ahead == Cardinality({k \in 1..Len(sorted) : SortsAhead(sorted[k], x)})
    IN  SubSeq(sorted, 1, ahead) \o <<x>> \o SubSeq(sorted, ahead + 1, Len(sorted))

(* sort_values on several columns is a stable lexsort: x, which follows    *)
(* the rows of sorted in the frame, is placed behind every row it does not *)
(* sort strictly ahead of.                                                 *)
InsertSorted(sorted, x) ==
    LET ahead == Cardinality({k \in 1..Len(sorted) : ~ SortsAhead(x, sorted[k])})
    IN  SubSeq(sorted, 1, ahead) \o <<x>> \o SubSeq(sorted, ahead + 1, Len(sorted))

(* Line 387; the rows keep their labels.                                   *)
RECURSIVE sort_values(_)
sort_values(frame) ==
    IF frame = << >> THEN << >>
    ELSE InsertSorted(sort_values(SubSeq(frame, 1, Len(frame) - 1)), frame[Len(frame)])

(* Dates as scraped: a month abbreviation and a day.  "Feb 30" does not    *)
(* parse.                                                                  *)
MergeDates ==
    {[mon |-> "Jan", day |-> 5], [mon |-> "Feb", day |-> 1], [mon |-> "Feb", day |-> 30]}

MergeWeights == {770, 800}

(* A DataFrame scrape_multiple_pages may return: rows labelled 0, 1, ...   *)
Frames(album) ==
    {frame \in SeqsUpTo([name : 0..(MaxFrame - 1), Date : MergeDates, Album : {album},
                         weighted : MergeWeights], MaxFrame) :
        \A k \in 1..Len(frame) : frame[k].name = k - 1}

MergeInit ==
    /\ m_pc = "merge"
    /\ albums_df \in Frames("t1")
    /\ singles_df \in Frames("Single")
    /\ merged_df = << >>

(* merge_albums_singles, lines 384-389.                                    *)
merge_albums_singles ==
    /\ m_pc = "merge"
    /\ LET all_df == ConcatIgnoreIndex(albums_df, singles_df)
       IN  IF \A k \in 1..Len(all_df) : DateParses(all_df[k].Date)
             THEN /\ merged_df' = sort_values(all_df)
                  /\ m_pc' = "done"
             ELSE /\ merged_df' = merged_df
                  /\ m_pc' = "raised"
    /\ UNCHANGED <<albums_df, singles_df>>

MergeNext ==
    merge_albums_singles /\ UNCHANGED <<recon_vars, extract_vars, album_vars, walk_vars, score_vars>>

InitMerge == ReconIdle /\ ExtractIdle /\ AlbumIdle /\ WalkIdle /\ ScoreIdle /\ MergeInit

SpecMerge == InitMerge /\ [][MergeNext]_vars

-----------------------------------------------------------------------------
(* The remote catalog: track URIs and the display name of each.  Two       *)
(* different tracks may carry the same name.                               *)
URIs == {"u1", "u2", "u3"}

TrackName(uri) ==
    CASE uri = "u1" -> "t1"
      [] uri = "u2" -> "t1"
      [] uri = "u3" -> "t2"

Titles == {"t1", "t2"}
Artists == {"a1"}

(* A playlist entry as sp.playlist_tracks returns it: track.uri, track.name *)
PlaylistItem(uri) == [uri |-> uri, name |-> TrackName(uri)]

(* get_all_playlist_tracks: the items of every page of the listing, or [] *)
(* when the listing raises SpotifyException (404 or any other).  Its two   *)
(* callers read the result only through `in` (lines 273 and 420), so the   *)
(* items are kept as a set.                                                *)
get_all_playlist_tracks(pl, raises) ==
    IF raises THEN {} ELSE {PlaylistItem(u) : u \in pl}

(* Mutant: the title prefilter compares titles with identifiers.           *)
NotInPlaylistByTitle_mut(frame, existing_tracks) ==
    LET uris == {t.uri : t \in existing_tracks}
    IN  SelectSeq(frame, LAMBDA r : r.Title \notin uris)

(* sorted_df[~sorted_df['Title'].isin(names)]                              *)
NotInPlaylistByTitle(frame, existing_tracks) ==
    LET names == {t.name : t \in existing_tracks}
    IN  SelectSeq(frame, LAMBDA r : r.Title \notin names)

(* Mutant: the label is taken for a position and the row there is removed. *)
DropLabel_mut(frame, label) ==
    IF label + 1 > Len(frame)
      THEN frame
      ELSE SubSeq(frame, 1, label) \o SubSeq(frame, label + 2, Len(frame))

(* DataFrame.drop(index=label): every row carrying the label is removed.   *)
DropLabel(frame, label) == SelectSeq(frame, LAMBDA r : r.name # label)

-----------------------------------------------------------------------------
(* Ranked collections: rows with pairwise distinct index labels 0..n-1 in  *)
(* any order (merge_albums_singles renumbers with ignore_index=True and    *)
(* then sorts, which permutes the labels).                                 *)
RankedRows(n) ==
    {frame \in [1..n -> [name : 0..(n - 1), Title : Titles, Artist : Artists]] :
        \A a, b \in 1..n : a # b => frame[a].name # frame[b].name}

RankedCollections == UNION {RankedRows(n) : n \in 0..MaxReleases}

ReconInit ==
    /\ pc = "stageA"
    /\ playlist \in {pl \in SUBSET URIs : Cardinality(pl) <= MaxPlaylist}
    /\ sorted_df \in RankedCollections
    /\ stageA_tracks = {}
    /\ new_songs = << >>
    /\ stageB_tracks = {}
    /\ existing_track_uris = {}
    /\ singles_df_copy = << >>
    /\ row_i = 0
    /\ searched = << >>
    /\ added = << >>
    /\ new_songs_spotify = << >>

(* remove_already_added_tracks, lines 416-421.                             *)
remove_already_added_tracks ==
    /\ pc = "stageA"
    /\ \E raises \in BOOLEAN :
         LET existing_tracks == get_all_playlist_tracks(playlist, raises)
         IN  /\ stageA_tracks' = existing_tracks
             /\ new_songs' = NotInPlaylistByTitle(sorted_df, existing_tracks)
    /\ pc' = "stageB"
    /\ UNCHANGED <<playlist, sorted_df, stageB_tracks, existing_track_uris,
                   singles_df_copy, row_i, searched, added, new_songs_spotify>>

(* add_songs_to_playlist, lines 269-276: fetch, identifier set, copy.      *)
add_songs_fetch ==
    /\ pc = "stageB"
    /\ \E raises \in BOOLEAN :
         LET existing_tracks == get_all_playlist_tracks(playlist, raises)
         IN  /\ stageB_tracks' = existing_tracks
             /\ existing_track_uris' = {t.uri : t \in existing_tracks}
    /\ singles_df_copy' = new_songs
    /\ row_i' = 0
    /\ pc' = "loop"
    /\ UNCHANGED <<playlist, sorted_df, stageA_tracks, new_songs, searched,
                   added, new_songs_spotify>>

(* The outcome of one loop iteration for a row and a search result (the    *)
(* items list of sp.search with limit=1), lines 287-304.                   *)
(* Mutant: the identifier is not checked against the running set.          *)
IterAdds_mut(items, uris) == items # << >>

IterAdds(items, uris) == items # << >> /\ items[1] \notin uris

(* Mutant: only a Release with no match is dropped from the copy.          *)
IterDrops_mut(items, uris) == items = << >>

IterDrops(items, uris) == items = << >> \/ items[1] \in uris

(* add_songs_to_playlist, lines 279-304: one iteration of the loop.        *)
add_songs_iter ==
    /\ pc = "loop"
    /\ row_i < Len(new_songs)
    /\ LET row == new_songs[row_i + 1]
       IN  \E items \in {<< >>} \cup {<<u>> : u \in URIs} :
             /\ searched' = Append(searched, [label |-> row.name, items |-> items])
             /\ IF IterAdds(items, existing_track_uris)
                  THEN /\ playlist' = playlist \cup {items[1]}
                       /\ added' = Append(added, <<row.name, items[1]>>)
                       /\ existing_track_uris' = existing_track_uris \cup {items[1]}
                  ELSE UNCHANGED <<playlist, added, existing_track_uris>>
             /\ singles_df_copy' =
                    IF IterDrops(items, existing_track_uris)
                      THEN DropLabel(singles_df_copy, row.name)
                      ELSE singles_df_copy
    /\ row_i' = row_i + 1
    /\ UNCHANGED <<pc, sorted_df, stageA_tracks, new_songs, stageB_tracks,
                   new_songs_spotify>>

(* add_songs_to_playlist, line 306: return singles_df_copy.iloc[::-1]      *)
add_songs_return ==
    /\ pc = "loop"
    /\ row_i = Len(new_songs)
    /\ new_songs_spotify' = Reverse(singles_df_copy)
    /\ pc' = "done"
    /\ UNCHANGED <<playlist, sorted_df, stageA_tracks, new_songs, stageB_tracks,
                   existing_track_uris, singles_df_copy, row_i, searched, added>>

(* The reconciliation run of __main__, lines 466-469.                      *)
Init == ExtractIdle /\ AlbumIdle /\ WalkIdle /\ MergeIdle /\ ScoreIdle /\ ReconInit

Next ==
    \/ remove_already_added_tracks /\ UNCHANGED <<extract_vars, album_vars, walk_vars, merge_vars, score_vars>>
    \/ add_songs_fetch /\ UNCHANGED <<extract_vars, album_vars, walk_vars, merge_vars, score_vars>>
    \/ add_songs_iter /\ UNCHANGED <<extract_vars, album_vars, walk_vars, merge_vars, score_vars>>
    \/ add_songs_return /\ UNCHANGED <<extract_vars, album_vars, walk_vars, merge_vars, score_vars>>

Spec == Init /\ [][Next]_vars

(* The same run when every remote call returns: the interpreter then       *)
(* executes the next statement, so a step that can be taken is taken.      *)
FairSpec == Init /\ [][Next]_vars /\ WF_vars(Next)


-----------------------------------------------------------------------------
(* Claims about the reconciler, checked under Spec.                        *)

AddedUris == {added[k][2] : k \in 1..Len(added)}
AddedLabels == {added[k][1] : k \in 1..Len(added)}
SearchedLabels == {searched[k].label : k \in 1..Len(searched)}
StageANames == {t.name : t \in stageA_tracks}
StageBUris == {t.uri : t \in stageB_tracks}

(* C1: in one pass of add_songs_to_playlist the remote add is never called *)
(* for an identifier that was in the membership fetched at the start of   *)
(* the pass, nor for one already added earlier in the pass; so add is      *)
(* called at most once per identifier.                                     *)
C1_AddOnlyNewIdentifiers ==
    \A k \in 1..Len(added) :
        /\ added[k][2] \notin StageBUris
        /\ \A j \in 1..(k - 1) : added[j][2] # added[k][2]

(* C1 witness: two Releases resolved to the same identifier, one search    *)
(* resolved to an identifier of the fetched membership, and an add call    *)
(* was made in the pass.                                                   *)
C1_Witness ==
    /\ pc = "done"
    /\ Len(added) >= 1
    /\ \E j, k \in 1..Len(searched) :
          /\ j < k
          /\ searched[j].items # << >>
          /\ searched[j].items = searched[k].items
          /\ searched[j].items[1] \in AddedUris
    /\ \E k \in 1..Len(searched) :
          searched[k].items # << >> /\ searched[k].items[1] \in StageBUris

(* C2: in a full run a Release whose title equals the title of a track in  *)
(* the membership fetched by Stage A is dropped before any search: no      *)
(* search call and no add call is made for it.                             *)
C2_TitleMatchNeverSearched ==
    \A r \in Range(sorted_df) :
        r.Title \in StageANames =>
            r.name \notin SearchedLabels /\ r.name \notin AddedLabels

(* C2 witness: the run is over, Stage A fetched a membership holding the   *)
(* title of a Release, and another Release went on to be searched.         *)
C2_Witness ==
    /\ pc = "done"
    /\ \E r \in Range(sorted_df) : r.Title \in StageANames
    /\ Len(searched) >= 1

-----------------------------------------------------------------------------
(* Claims about the record extractor, checked under SpecExtract.           *)

(* The block a row of the returned DataFrame came from (its label is its   *)
(* position in the lists, counted from 0).                                 *)
BlockOfRow(r) == blocks_seen[row_block[r.name + 1]]

(* C6 as stated: every Release in the output, on the singles path and on   *)
(* the albums path alike, carries a vote count >= min_nb_ratings and a     *)
(* rating >= min_rating.                                                   *)
C6_Original ==
    \A r \in Range(df) :
        r.nb_votes >= params.min_nb_ratings /\ r.Rating >= params.min_rating

(* C6 as amended: every Release in the output comes from a block whose     *)
(* user vote count is >= min_nb_ratings and whose user rating is >=        *)
(* min_rating; on the singles path the Release carries that vote count and *)
(* rating, on the albums path it carries the track's own, which are >=     *)
(* min_votes_tracks and >= min_rating_tracks.                              *)
C6_GatesOfEachPath ==
    \A r \in Range(df) :
        LET entry == UserEntry(BlockOfRow(r))
        IN  /\ entry.count >= params.min_nb_ratings
            /\ entry.score >= params.min_rating
            /\ IF params.base_url = ALBUMS_URL
                 THEN /\ r.nb_votes >= params.min_votes_tracks
                      /\ r.Rating >= params.min_rating_tracks
                 ELSE /\ r.nb_votes = entry.count
                      /\ r.Rating = entry.score

(* C6 witness: the albums path returned a track whose vote count lies      *)
(* below the album threshold.                                              *)
C6_Witness ==
    /\ e_pc = "done"
    /\ params = AlbumsArgs
    /\ \E r \in Range(df) : r.nb_votes < params.min_nb_ratings

(* C7: every Release returned has weighted score >= min_weighted, the      *)
(* score being the one computed from the Release's own rating and vote     *)
(* count (a track's, on the albums path) with global average 74 and        *)
(* smoothing factor 15; and no appended row with weighted score >=         *)
(* min_weighted is dropped by the final gate.                              *)
C7_WeightedGate ==
    e_pc = "done" =>
        /\ \A r \in Range(df) :
              /\ r.weighted >= params.min_weighted
              /\ r.weighted = weighted_average_rating(r.Rating, r.nb_votes, 74, 15)
              /\ r.name + 1 \in 1..Len(lists)
              /\ DataFrame(lists)[r.name + 1] = r
        /\ \A k \in 1..Len(lists) :
              lists[k].weighted >= params.min_weighted =>
                  \E r \in Range(df) : r.name = k - 1

(* C7 witness: on the albums path a track of a block that passed the album *)
(* gates was dropped by the final gate and another was returned.           *)
C7_Witness ==
    /\ e_pc = "done"
    /\ params = AlbumsArgs
    /\ Len(df) >= 1
    /\ \E k \in 1..Len(lists) : lists[k].weighted < params.min_weighted

(* A second case of C7 that is reached: on the singles path a Release      *)
(* whose weighted score equals min_weighted was returned.                  *)
C7_BoundaryReached ==
    /\ e_pc = "done"
    /\ params = SinglesArgs
    /\ \E r \in Range(df) : r.weighted = params.min_weighted

(* C8: a block with zero rating entries, and a block with no date entry,   *)
(* never yields a row (so never a Release of the output) and never         *)
(* triggers a detail-page fetch.                                           *)
C8_NoRatingsOrNoDateSkipped ==
    \A k \in 1..Len(blocks_seen) :
        (Len(blocks_seen[k].ratings) = 0 \/ ~ blocks_seen[k].has_date) =>
            /\ k \notin Range(row_block)
            /\ k \notin Range(detail_fetches)
            /\ \A r \in Range(df) : row_block[r.name + 1] # k

(* C8 witness: on the albums path with every threshold at zero, the page   *)
(* held a dated block without rating entries and an undated block with a   *)
(* user rating entry.                                                      *)
C8_Witness ==
    /\ e_pc = "done"
    /\ params = NoThresholds(AlbumsArgs)
    /\ \E k \in 1..Len(blocks_seen) :
          Len(blocks_seen[k].ratings) = 0 /\ blocks_seen[k].has_date
    /\ \E k \in 1..Len(blocks_seen) :
          Len(blocks_seen[k].ratings) = 2 /\ ~ blocks_seen[k].has_date

-----------------------------------------------------------------------------
(* Claims about the album expansion, checked under SpecAlbum.              *)

(* The tracks of the detail page that meet the per-track minimum rating    *)
(* and minimum votes, in page order.                                       *)
QualifyingTracks ==
    SelectSeq(a_block.tracks,
              LAMBDA t : /\ t.has_span
                         /\ t.rating >= a_params.min_rating_tracks
                         /\ t.votes >= a_params.min_votes_tracks)

(* The number of tracks to keep for a list of qualifying tracks: 1 below a *)
(* mean of 82, 2 from 82 to below 84, top_songs_keep from 84 on.           *)
KeepCount(q) ==
    IF SumRatings(q) < 82 * Len(q) THEN 1
    ELSE IF SumRatings(q) < 84 * Len(q) THEN 2
    ELSE a_params.top_songs_keep

(* The rows C9 expects: the KeepCount best of the qualifying tracks, ties  *)
(* in page order.                                                          *)
ExpectedTrackRows(q) ==
    LET best == Take(SortedByRatingDesc(q), KeepCount(q))
    IN  [k \in 1..Len(best) |->
            [Title |-> best[k].name, Rating |-> best[k].rating,
             nb_votes |-> best[k].votes]]

EmittedTracks ==
    [k \in 1..Len(a_rows) |->
        [Title |-> a_rows[k].Title, Rating |-> a_rows[k].Rating,
         nb_votes |-> a_rows[k].nb_votes]]

(* C9: for an album block that passed the album gates and has a non-empty  *)
(* set Q of qualifying tracks, the extractor emits exactly min(k, |Q|)     *)
(* track Releases, k = 1 for mean(Q) < 82, 2 for 82 <= mean(Q) < 84,       *)
(* top_songs_keep for mean(Q) >= 84, and they are the k highest-rated of   *)
(* Q, ties broken by detail-page order.                                    *)
C9_TopTracksOfQualifying ==
    (a_pc = "done" /\ Len(QualifyingTracks) > 0) =>
        EmittedTracks = ExpectedTrackRows(QualifyingTracks)

(* The same statement for detail pages whose qualifying tracks carry       *)
(* pairwise distinct names; it holds.                                      *)
C9_WhenNamesDistinct ==
    (/\ a_pc = "done"
     /\ Len(QualifyingTracks) > 0
     /\ \A j, k \in 1..Len(QualifyingTracks) :
           j # k => QualifyingTracks[j].name # QualifyingTracks[k].name) =>
        EmittedTracks = ExpectedTrackRows(QualifyingTracks)

-----------------------------------------------------------------------------
(* Claims about the page walker, checked under SpecWalk.                   *)

(* C4: for every page number of the range, the first included, a           *)
(* transport failure of the page fetch does not raise past                 *)
(* scrape_multiple_pages.                                                  *)
C4_FetchFailureNeverRaises == w_pc # "raised"

(* The Releases of each page's own response, in page order.                *)
RECURSIVE OwnPageRows(_)
OwnPageRows(log) ==
    IF log = << >> THEN << >>
    ELSE LET outcome == log[Len(log)]
         IN  ConcatIgnoreIndex(
                 OwnPageRows(SubSeq(log, 1, Len(log) - 1)),
                 IF ~ outcome.raises /\ outcome.status_code = 200
                   THEN get_dataframe_from_soup(outcome.content, w_args.call)
                   ELSE << >>)

(* C5: for any sequence of fetch outcomes over start_page..end_page the    *)
(* result is the concatenation, in page order, of the Releases extracted   *)
(* from each page's own response; a page whose fetch did not return 200    *)
(* contributes nothing and no page contributes more than once.             *)
C5_ResultIsOwnPagesInOrder ==
    w_pc = "done" => final_df = OwnPageRows(fetch_log)

-----------------------------------------------------------------------------
(* Claims about the merger, checked under SpecMerge.                       *)

AllDf == ConcatIgnoreIndex(albums_df, singles_df)

(* C10: merge_albums_singles returns a permutation of the concatenation    *)
(* albums-then-singles, ordered by parsed date descending, then weighted   *)
(* score descending; for equal date and score the order of the             *)
(* concatenation is preserved.                                             *)
C10_StableSortOfConcatenation ==
    m_pc = "done" =>
        /\ Len(merged_df) = Len(AllDf)
        /\ \A k \in 1..Len(AllDf) :
              Cardinality({j \in 1..Len(merged_df) : merged_df[j] = AllDf[k]}) = 1
        /\ \A j, k \in 1..Len(merged_df) :
              j < k =>
                 LET x == merged_df[j]
                     y == merged_df[k]
                     dx == (MonthNumber(x.Date.mon) * 100) + x.Date.day
                     dy == (MonthNumber(y.Date.mon) * 100) + y.Date.day
                 IN  /\ dx >= dy
                     /\ dx = dy => x.weighted >= y.weighted
                     /\ (dx = dy /\ x.weighted = y.weighted) => x.name < y.name

(* C10 witness: the merge returned; an album row and a single of the same  *)
(* date and score were merged, and so were two rows of one date whose      *)
(* higher score came later in the concatenation.                           *)
C10_Witness ==
    /\ m_pc = "done"
    /\ \E j, k \in 1..Len(merged_df) :
          /\ merged_df[j].Album # merged_df[k].Album
          /\ merged_df[j].Date = merged_df[k].Date
          /\ merged_df[j].weighted = merged_df[k].weighted
    /\ \E j, k \in 1..Len(merged_df) :
          /\ j < k
          /\ merged_df[j].Date = merged_df[k].Date
          /\ merged_df[j].weighted > merged_df[k].weighted
          /\ merged_df[j].name > merged_df[k].name

-----------------------------------------------------------------------------
(* Claims about weighted_average_rating (SpecScore).                       *)

(* The exact numerator and denominator of the second call.                 *)
SecondN == (s_args.avg_rating2 * s_args.num_votes)
               + (s_args.global_avg * s_args.smoothing_factor)

SecondD == s_args.num_votes + s_args.smoothing_factor

(* C11: weighted_average_rating is monotonically non-decreasing in the     *)
(* rating: for ratings avg_rating1 <= avg_rating2 on the 0..100 scale and  *)
(* one vote count >= 0, global average and smoothing factor with           *)
(* num_votes + smoothing_factor > 0, the value returned for avg_rating1,   *)
(* after the division by 10 and the rounding to two decimals, is no larger *)
(* than the value returned for avg_rating2.                                *)
C11_MonotoneInRating ==
    s_pc = "done" =>
        /\ s_args.avg_rating1 <= s_args.avg_rating2
        /\ s_args.num_votes + s_args.smoothing_factor > 0
        /\ s_scores[1] <= s_scores[2]

(* C11 witness: both calls returned for two different ratings with votes   *)
(* cast; the exact value of the second call is a halfway case its double   *)
(* rounds down, and the rounded values of the two calls are equal.         *)
C11_Witness ==
    /\ s_pc = "done"
    /\ s_args.avg_rating1 < s_args.avg_rating2
    /\ s_args.num_votes > 0
    /\ IsHalfway(SecondN, SecondD)
    /\ <<SecondN, SecondD>> \in HalfwayRoundsDown
    /\ s_scores[1] = s_scores[2]

-----------------------------------------------------------------------------
(* Claims about the life of a Release in the reconciler (FairSpec).        *)

(* The searches and the adds made for a Release, by their places in the    *)
(* logs; Kept(r) when the Release is still in the copy (in the returned    *)
(* rows once the pass has returned).                                       *)
SearchesOf(r) == {k \in 1..Len(searched) : searched[k].label = r.name}

AddsOf(r) == {k \in 1..Len(added) : added[k][1] = r.name}

InSeq(r, s) == \E k \in 1..Len(s) : s[k] = r

Kept(r) == IF pc = "done" THEN InSeq(r, new_songs_spotify)
                          ELSE InSeq(r, singles_df_copy)

(* The four terminal states of a Release.                                  *)
TitleFiltered(r) == pc # "stageA" /\ ~InSeq(r, new_songs)

DroppedNotFound(r) ==
    /\ \E k \in 1..Len(searched) :
          searched[k].label = r.name /\ searched[k].items = << >>
    /\ ~Kept(r)

DroppedAlreadyPresent(r) ==
    /\ \E k \in 1..Len(searched) :
          searched[k].label = r.name /\ searched[k].items # << >>
    /\ \A k \in 1..Len(added) : added[k][1] # r.name
    /\ ~Kept(r)

ADDED(r) ==
    /\ \E k \in 1..Len(added) : added[k][1] = r.name
    /\ Kept(r)

(* The number of terminal states a Release is in.                          *)
One(b) == IF b THEN 1 ELSE 0

TerminalStates(r) ==
    One(TitleFiltered(r)) + One(DroppedNotFound(r))
        + One(DroppedAlreadyPresent(r)) + One(ADDED(r))

(* What holds of the Releases in every state of the run: no two searches   *)
(* carry one label (the labels of the Releases are distinct, so no Release *)
(* is searched twice); no Release is in two terminal states, and each is   *)
(* in one once the pass has returned; a title-filtered Release has no      *)
(* search and no add; every add is for a Release, and follows a search of  *)
(* that Release which found the identifier added.                          *)
ReleaseStateMachine ==
    /\ \A j, k \in 1..Len(searched) :
          searched[j].label = searched[k].label => j = k
    /\ \A i \in 1..Len(sorted_df) :
          LET r == sorted_df[i]
          IN  /\ TerminalStates(r) \in (IF pc = "done" THEN {1} ELSE {0, 1})
              /\ TitleFiltered(r) => SearchesOf(r) = {} /\ AddsOf(r) = {}
    /\ \A k \in 1..Len(added) :
          /\ \E i \in 1..Len(sorted_df) : sorted_df[i].name = added[k][1]
          /\ \E j \in 1..Len(searched) :
                searched[j] = [label |-> added[k][1], items |-> <<added[k][2]>>]

(* C12: every Release of the ranked collection handed to the reconciler    *)
(* goes from RANKED to title-filtered or to a search, and from the search  *)
(* to dropped-not-found, dropped-already-present or ADDED: when each       *)
(* remote call returns the pass terminates, and then every Release is in   *)
(* exactly one of the four terminal states (never in two of them before);  *)
(* a Release is searched at most once, a title-filtered Release is never   *)
(* searched, and add is called only for a Release whose search was made    *)
(* and found the identifier added.                                         *)
C12_ReleaseStateMachine ==
    /\ []ReleaseStateMachine
    /\ <>(pc = "done")

(* C12 witness: the pass returned for three Releases, one title-filtered,  *)
(* one searched and dropped as already present, one searched and added.    *)
C12_Witness ==
    /\ pc = "done"
    /\ \E r1, r2, r3 \in Range(sorted_df) :
          /\ TitleFiltered(r1)
          /\ DroppedAlreadyPresent(r2)
          /\ ADDED(r3)

=============================================================================
